---- MODULE Spec2Model ----
(***************************************************************************)
(* A model of the price feed contracts:                                    *)
(*   PriceFeedLibrary  (src/Price-feed-library.py)                         *)
(*   PriceFeedExample  (src/Price-feed-example.py)                         *)
(*                                                                         *)
(* Strings that the code normalises or concatenates (symbols, currencies,  *)
(* cache keys) are sequences of one-character strings, so that upper(),    *)
(* lower() and the f-string building the cache key are computed.  A JSON   *)
(* scalar is a tagged record; a Python dict is a function from its keys.   *)
(* Every caller is a process; a public method runs atomically between the  *)
(* points where it waits for gl.exec_llm, the only blocking call.          *)
(***************************************************************************)
EXTENDS Integers, Sequences, FiniteSets, TLC

VARIABLES price_cache, last_update, user_alerts, pc, call, req, local, result

vars == <<price_cache, last_update, user_alerts, pc, call, req, local, result>>

-----------------------------------------------------------------------------
(* Bounds of the model *)

\* the largest number of rules stored, over all users
MaxAlerts == 2

\* fetched prices range over 0..MaxPrice
MaxPrice == 2

\* the largest number of holdings in one portfolio
MaxHoldings == 2

\* the callers (gl.message.sender_address, as str)
Users == {"0xA", "0xB"}

-----------------------------------------------------------------------------
(* str.upper and str.lower *)

LowerLetters ==
    <<"a","b","c","d","e","f","g","h","i","j","k","l","m",
      "n","o","p","q","r","s","t","u","v","w","x","y","z">>

UpperLetters ==
    <<"A","B","C","D","E","F","G","H","I","J","K","L","M",
      "N","O","P","Q","R","S","T","U","V","W","X","Y","Z">>

UpperChar(c) ==
    IF \E i \in 1..26 : LowerLetters[i] = c
    THEN UpperLetters[CHOOSE i \in 1..26 : LowerLetters[i] = c]
    ELSE c

LowerChar(c) ==
    IF \E i \in 1..26 : UpperLetters[i] = c
    THEN LowerLetters[CHOOSE i \in 1..26 : UpperLetters[i] = c]
    ELSE c

Upper(s) == [i \in 1..Len(s) |-> UpperChar(s[i])]

\* Lower leaving the string as it is: the call of lower() forgotten
LowerUnchanged(s) == s

Lower(s) == [i \in 1..Len(s) |-> LowerChar(s[i])]

-----------------------------------------------------------------------------
(* SUPPORTED_COINS, in the order the dict literal lists its keys *)

SUPPORTED_COINS ==
    << <<  <<"B","T","C">>,         "bitcoin" >>,
       <<  <<"E","T","H">>,         "ethereum" >>,
       <<  <<"S","O","L">>,         "solana" >>,
       <<  <<"U","S","D","T">>,     "tether" >>,
       <<  <<"U","S","D","C">>,     "usd-coin" >>,
       <<  <<"B","N","B">>,         "binancecoin" >>,
       <<  <<"X","R","P">>,         "ripple" >>,
       <<  <<"A","D","A">>,         "cardano" >>,
       <<  <<"D","O","G","E">>,     "dogecoin" >>,
       <<  <<"M","A","T","I","C">>, "matic-network" >>,
       <<  <<"D","O","T">>,         "polkadot" >>,
       <<  <<"A","V","A","X">>,     "avalanche-2" >>,
       <<  <<"L","I","N","K">>,     "chainlink" >>,
       <<  <<"U","N","I">>,         "uniswap" >>,
       <<  <<"A","T","O","M">>,     "cosmos" >> >>

\* list(self.SUPPORTED_COINS.keys())
SupportedKeys == [i \in 1..Len(SUPPORTED_COINS) |-> SUPPORTED_COINS[i][1]]

\* symbol in self.SUPPORTED_COINS
IsSupported(symbol) == \E i \in 1..Len(SUPPORTED_COINS) : SUPPORTED_COINS[i][1] = symbol

\* self.SUPPORTED_COINS[symbol]
CoinId(symbol) ==
    SUPPORTED_COINS[CHOOSE i \in 1..Len(SUPPORTED_COINS) : SUPPORTED_COINS[i][1] = symbol][2]

-----------------------------------------------------------------------------
(* JSON values, as json.loads returns them *)

None == [t |-> "none", n |-> 0]

Num(n) == [t |-> "num", n |-> n]

\* a string where a number is expected, such as "n/a"
Str == [t |-> "str", n |-> 0]

IsNum(v) == v.t = "num"

\* dict.get(key), None when the key is absent
DictGet(d, key) == IF key \in DOMAIN d THEN d[key] ELSE None

Prices == 0..MaxPrice

\* the payload the prompt asks for
Quote(p) == [t |-> "dict", d |-> [price |-> Num(p), change_24h |-> Num(1), market_cap |-> Num(1)]]

\* an object without its "price" member
QuoteNoPrice == [t |-> "dict", d |-> [change_24h |-> Num(1), market_cap |-> Num(1)]]

\* an object whose "price" is not a number
QuoteStrPrice == [t |-> "dict", d |-> [price |-> Str, change_24h |-> Num(1), market_cap |-> Num(1)]]

\* valid JSON that is no object, such as [] or 42
JsonList == [t |-> "list", d |-> <<>>]

JsonValues == {Quote(p) : p \in Prices} \cup {QuoteNoPrice, QuoteStrPrice, JsonList}

\* what gl.exec_llm followed by json.loads can do: exec_llm raises, the text is
\* no JSON (json.loads raises), or the text parses to a value
Responses ==
    {[r |-> "raise", val |-> JsonList], [r |-> "garbage", val |-> JsonList]}
        \cup {[r |-> "json", val |-> v] : v \in JsonValues}

-----------------------------------------------------------------------------
(* PriceFeedLibrary.get_price *)

\* f"{symbol}_{currency}"
CacheKey(symbol, currency) == symbol \o <<"_">> \o currency

\* UnsupportedResult without the list of supported symbols
UnsupportedResultNoList(symbol) ==
    [success |-> FALSE,
     error |-> <<"Unsupported symbol: ">> \o symbol]

\* the dict returned for a symbol that is not in SUPPORTED_COINS
UnsupportedResult(symbol) ==
    [success |-> FALSE,
     error |-> <<"Unsupported symbol: ">> \o symbol,
     supported_coins |-> SupportedKeys]

\* the dict the except clause returns; exc names the exception caught
FailureResult(exc, symbol) ==
    [success |-> FALSE,
     error |-> <<"Failed to fetch price: ", exc>>,
     symbol |-> symbol]

\* the dict returned at the end of the try block
SuccessResult(symbol, currency, price_data) ==
    [success |-> TRUE,
     symbol |-> symbol,
     currency |-> currency,
     price |-> DictGet(price_data, "price"),
     change_24h |-> DictGet(price_data, "change_24h"),
     market_cap |-> DictGet(price_data, "market_cap"),
     timestamp |-> "current"]

\* StoreInCache rebinding the dict: self.price_cache = {cache_key: price_data}
StoreInCacheRebinding(cache, cache_key, price_data) ==
    [k \in {cache_key} |-> price_data]

\* self.price_cache[cache_key] = price_data
StoreInCache(cache, cache_key, price_data) ==
    [k \in DOMAIN cache \cup {cache_key} |->
        IF k = cache_key THEN price_data ELSE cache[k]]

\* get_price up to the call of gl.exec_llm: the normalisation, the validation
\* and the lookup of the CoinGecko id.  fetch says whether exec_llm is called.
GetPriceStart(symbol_arg, currency_arg) ==
    LET symbol == Upper(symbol_arg)
        currency == Lower(currency_arg)
    IN  IF ~IsSupported(symbol)
        THEN [fetch |-> FALSE, ret |-> UnsupportedResult(symbol)]
        ELSE [fetch |-> TRUE,
              request |-> [coin_id |-> CoinId(symbol), symbol |-> symbol, currency |-> currency]]

\* get_price from the return of gl.exec_llm on: json.loads, the store in the
\* cache, the result dict, and the except clause around all of it
GetPriceFinish(cache, request, resp) ==
    IF resp.r = "raise"
    THEN [cache |-> cache, ret |-> FailureResult("exec_llm error", request.symbol)]
    ELSE IF resp.r = "garbage"
    THEN [cache |-> cache, ret |-> FailureResult("JSONDecodeError", request.symbol)]
    ELSE LET stored == StoreInCache(cache, CacheKey(request.symbol, request.currency), resp.val)
         IN  IF resp.val.t # "dict"
             THEN [cache |-> stored, ret |-> FailureResult("AttributeError", request.symbol)]
             ELSE [cache |-> stored,
                   ret |-> SuccessResult(request.symbol, request.currency, resp.val.d)]

-----------------------------------------------------------------------------
(* The callers *)

NoCall == [op |-> "none"]

NoReq == [coin_id |-> "", symbol |-> <<>>, currency |-> <<>>]

NoLocal == [i |-> 0]

NoResult == [pending |-> TRUE]

\* an uncaught exception ends the call
Fault(exc) == [fault |-> exc]

IsFault(r) == "fault" \in DOMAIN r

Init ==
    /\ price_cache = <<>>
    /\ last_update = <<>>
    /\ user_alerts = <<>>
    /\ pc = [u \in Users |-> "idle"]
    /\ call = [u \in Users |-> NoCall]
    /\ req = [u \in Users |-> NoReq]
    /\ local = [u \in Users |-> NoLocal]
    /\ result = [u \in Users |-> NoResult]

\* the (symbol, currency) arguments callers pass to get_price: two spellings
\* of one pair, a second currency, and a symbol that is not supported
GetPriceInputs ==
    { << <<"B","T","C">>, <<"u","s","d">> >>,
      << <<"b","t","c">>, <<"U","S","D">> >>,
      << <<"B","t","c">>, <<"e","u","r">> >>,
      << <<"z","z","z">>, <<"u","s","d">> >> }

\* a caller invokes get_price(symbol, currency); the method runs to its
\* return (unsupported symbol) or to the call of gl.exec_llm
GetPriceCall(u) ==
    /\ pc[u] # "fetching"
    /\ \E arg \in GetPriceInputs :
        LET start == GetPriceStart(arg[1], arg[2])
        IN  /\ call' = [call EXCEPT ![u] = [op |-> "get_price", symbol |-> arg[1], currency |-> arg[2]]]
            /\ local' = [local EXCEPT ![u] = NoLocal]
            /\ IF start.fetch
               THEN /\ pc' = [pc EXCEPT ![u] = "fetching"]
                    /\ req' = [req EXCEPT ![u] = start.request]
                    /\ result' = [result EXCEPT ![u] = NoResult]
               ELSE /\ pc' = [pc EXCEPT ![u] = "returned"]
                    /\ req' = [req EXCEPT ![u] = NoReq]
                    /\ result' = [result EXCEPT ![u] = start.ret]
    /\ UNCHANGED <<price_cache, last_update, user_alerts>>

\* gl.exec_llm returns to a caller of get_price, which runs to its return
GetPriceReturn(u) ==
    /\ pc[u] = "fetching"
    /\ call[u].op = "get_price"
    /\ \E resp \in Responses :
        LET fin == GetPriceFinish(price_cache, req[u], resp)
        IN  /\ price_cache' = fin.cache
            /\ result' = [result EXCEPT ![u] = fin.ret]
    /\ pc' = [pc EXCEPT ![u] = "returned"]
    /\ req' = [req EXCEPT ![u] = NoReq]
    /\ UNCHANGED <<last_update, user_alerts, call, local>>

Next ==
    \E u \in Users :
        \/ GetPriceCall(u)
        \/ GetPriceReturn(u)

Spec == Init /\ [][Next]_vars

-----------------------------------------------------------------------------
(* PriceFeedLibrary.is_price_above *)

\* the currency the example contract passes
usd == <<"u","s","d">>

\* IsAbove with >= for >
IsAboveOrEqual(current_price, threshold) == current_price >= threshold

\* current_price > threshold
IsAbove(current_price, threshold) == current_price > threshold

\* PercentageDiff dividing by the price:
\* (current_price - threshold) / current_price * 100
PercentageDiffOfPrice(current_price, threshold) ==
    IF threshold > 0
    THEN [num |-> (current_price - threshold) * 100, den |-> current_price]
    ELSE [num |-> 0, den |-> 1]

\* ((current_price - threshold) / threshold * 100) if threshold > 0 else 0,
\* as the fraction num/den
PercentageDiff(current_price, threshold) ==
    IF threshold > 0
    THEN [num |-> (current_price - threshold) * 100, den |-> threshold]
    ELSE [num |-> 0, den |-> 1]

\* is_price_above after its call of get_price returned price_data.  The result
\* of get_price always holds the key "price", so .get("price", 0) is its value,
\* None included; comparing None or a string with a number raises TypeError.
IsPriceAboveFinish(price_data, symbol, threshold) ==
    IF ~price_data.success
    THEN price_data
    ELSE LET current_price == price_data.price
         IN  IF ~IsNum(current_price)
             THEN Fault("TypeError")
             ELSE [success |-> TRUE,
                   symbol |-> symbol,
                   current_price |-> current_price,
                   threshold |-> threshold,
                   is_above |-> IsAbove(current_price.n, threshold),
                   difference |-> current_price.n - threshold,
                   percentage_diff |-> PercentageDiff(current_price.n, threshold)]

-----------------------------------------------------------------------------
(* PriceFeedExample.set_price_alert *)

\* the dict set_price_alert builds
NewAlert(symbol, threshold, alert_type) ==
    [symbol |-> symbol, threshold |-> threshold, type |-> alert_type, active |-> TRUE]

\* self.user_alerts[user], the empty list for a user without an entry
AlertsOf(alerts, user) == IF user \in DOMAIN alerts THEN alerts[user] ELSE <<>>

\* AppendAlert inserting at the head: self.user_alerts[user].insert(0, alert)
AppendAlertAtHead(alerts, user, alert) ==
    [x \in DOMAIN alerts \cup {user} |->
        IF x = user THEN <<alert>> \o AlertsOf(alerts, user) ELSE alerts[x]]

\* AppendAlert on one list shared by the users: the rule is appended to the
\* list of every user that has one
AppendAlertShared(alerts, user, alert) ==
    [x \in DOMAIN alerts \cup {user} |-> Append(AlertsOf(alerts, x), alert)]

\* if user not in self.user_alerts: self.user_alerts[user] = []
\* self.user_alerts[user].append(alert)
AppendAlert(alerts, user, alert) ==
    [x \in DOMAIN alerts \cup {user} |->
        IF x = user THEN Append(AlertsOf(alerts, user), alert) ELSE alerts[x]]

\* the number of rules stored, over all users
RECURSIVE TotalAlerts(_, _)
TotalAlerts(alerts, users) ==
    IF users = {}
    THEN 0
    ELSE LET x == CHOOSE x \in users : TRUE
         IN  Len(AlertsOf(alerts, x)) + TotalAlerts(alerts, users \ {x})

\* the rules callers set: a supported symbol in lower case and an unsupported
\* one, both directions, and a threshold inside the range of the prices
AlertSymbols == { <<"b","t","c">>, <<"Z","Z","Z">> }

AlertTypes == {"above", "below"}

AlertThresholds == {1}

SetPriceAlert(u) ==
    /\ pc[u] # "fetching"
    /\ TotalAlerts(user_alerts, Users) < MaxAlerts
    /\ \E symbol \in AlertSymbols, threshold \in AlertThresholds, alert_type \in AlertTypes :
        LET alert == NewAlert(symbol, threshold, alert_type)
        IN  /\ user_alerts' = AppendAlert(user_alerts, u, alert)
            /\ call' = [call EXCEPT ![u] =
                    [op |-> "set_price_alert", symbol |-> symbol,
                     threshold |-> threshold, alert_type |-> alert_type]]
            /\ result' = [result EXCEPT ![u] =
                    [success |-> TRUE,
                     message |-> <<"Alert set: ", symbol, alert_type, threshold>>,
                     alert |-> alert]]
    /\ pc' = [pc EXCEPT ![u] = "returned"]
    /\ req' = [req EXCEPT ![u] = NoReq]
    /\ local' = [local EXCEPT ![u] = NoLocal]
    /\ UNCHANGED <<price_cache, last_update>>

-----------------------------------------------------------------------------
(* PriceFeedExample.check_alerts *)

\* the entry appended to triggered
TriggeredEntry(alert, current_price) ==
    [symbol |-> alert.symbol,
     threshold |-> alert.threshold,
     current_price |-> current_price,
     type |-> alert.type]

\* TriggerStep putting the new entry first: triggered.insert(0, ...)
TriggerStepAtHead(triggered, alert, r) ==
    IF r.success
    THEN IF \/ (alert.type = "above" /\ r.is_above)
            \/ (alert.type = "below" /\ ~r.is_above)
         THEN <<TriggeredEntry(alert, r.current_price)>> \o triggered
         ELSE triggered
    ELSE triggered

\* the body of the loop after is_price_above returned r: triggered afterwards
TriggerStep(triggered, alert, r) ==
    IF r.success
    THEN IF \/ (alert.type = "above" /\ r.is_above)
            \/ (alert.type = "below" /\ ~r.is_above)
         THEN Append(triggered, TriggeredEntry(alert, r.current_price))
         ELSE triggered
    ELSE triggered

\* what an iteration that skipped an inactive rule leaves in seen
Skipped == [success |-> FALSE, skipped |-> TRUE]

\* The loop over the user's rules from rule i on, up to the next call of
\* gl.exec_llm or to the end of the list.  A rule with an unsupported symbol
\* gets its failure from get_price without a fetch.  seen holds, per rule
\* passed, the value is_price_above returned for it.
RECURSIVE CheckAlertsLoop(_, _, _, _)
CheckAlertsLoop(alerts, i, triggered, seen) ==
    IF i > Len(alerts)
    THEN [fetch |-> FALSE, i |-> i, triggered |-> triggered, seen |-> seen]
    ELSE IF ~alerts[i].active
    THEN CheckAlertsLoop(alerts, i + 1, triggered, Append(seen, Skipped))
    ELSE LET start == GetPriceStart(alerts[i].symbol, usd)
         IN  IF start.fetch
             THEN [fetch |-> TRUE, i |-> i, request |-> start.request,
                   triggered |-> triggered, seen |-> seen]
             ELSE LET r == IsPriceAboveFinish(start.ret, alerts[i].symbol, alerts[i].threshold)
                  IN  CheckAlertsLoop(alerts, i + 1, TriggerStep(triggered, alerts[i], r),
                                      Append(seen, r))

\* the dict check_alerts returns after the loop
CheckAlertsResult(triggered) ==
    [success |-> TRUE,
     triggered_count |-> Len(triggered),
     triggered_alerts |-> triggered]

\* the dict check_alerts returns for a user without an entry
NoAlertsResult ==
    [success |-> TRUE,
     message |-> "No alerts set",
     triggered_alerts |-> <<>>]

\* caller u goes on as the loop says: waits for the next fetch, or returns
CheckAlertsContinue(u, run) ==
    /\ local' = [local EXCEPT ![u] = [i |-> run.i, triggered |-> run.triggered, seen |-> run.seen]]
    /\ IF run.fetch
       THEN /\ pc' = [pc EXCEPT ![u] = "fetching"]
            /\ req' = [req EXCEPT ![u] = run.request]
            /\ result' = [result EXCEPT ![u] = NoResult]
       ELSE /\ pc' = [pc EXCEPT ![u] = "returned"]
            /\ req' = [req EXCEPT ![u] = NoReq]
            /\ result' = [result EXCEPT ![u] = CheckAlertsResult(run.triggered)]

CheckAlertsCall(u) ==
    /\ pc[u] # "fetching"
    /\ call' = [call EXCEPT ![u] = [op |-> "check_alerts"]]
    /\ IF u \notin DOMAIN user_alerts
       THEN /\ pc' = [pc EXCEPT ![u] = "returned"]
            /\ req' = [req EXCEPT ![u] = NoReq]
            /\ local' = [local EXCEPT ![u] = NoLocal]
            /\ result' = [result EXCEPT ![u] = NoAlertsResult]
       ELSE CheckAlertsContinue(u, CheckAlertsLoop(user_alerts[u], 1, <<>>, <<>>))
    /\ UNCHANGED <<price_cache, last_update, user_alerts>>

\* gl.exec_llm returns resp to the get_price call made for rule local[u].i:
\* everything check_alerts does from there, but for the alert store
CheckAlertsResume(u, resp) ==
    LET alert == user_alerts[u][local[u].i]
        fin == GetPriceFinish(price_cache, req[u], resp)
        r == IsPriceAboveFinish(fin.ret, alert.symbol, alert.threshold)
    IN  /\ price_cache' = fin.cache
        /\ IF IsFault(r)
           THEN /\ pc' = [pc EXCEPT ![u] = "returned"]
                /\ req' = [req EXCEPT ![u] = NoReq]
                /\ local' = [local EXCEPT ![u].seen = Append(@, r)]
                /\ result' = [result EXCEPT ![u] = r]
           ELSE CheckAlertsContinue(u,
                    CheckAlertsLoop(user_alerts[u], local[u].i + 1,
                                    TriggerStep(local[u].triggered, alert, r),
                                    Append(local[u].seen, r)))

\* CheckAlertsReturn retiring a rule once it triggered: alert["active"] = False
CheckAlertsReturnOneShot(u) ==
    /\ pc[u] = "fetching"
    /\ call[u].op = "check_alerts"
    /\ \E resp \in Responses :
        /\ CheckAlertsResume(u, resp)
        /\ user_alerts' =
            IF Len(local'[u].triggered) > Len(local[u].triggered)
            THEN [user_alerts EXCEPT ![u][local[u].i].active = FALSE]
            ELSE user_alerts
    /\ UNCHANGED <<last_update, call>>

CheckAlertsReturn(u) ==
    /\ pc[u] = "fetching"
    /\ call[u].op = "check_alerts"
    /\ \E resp \in Responses : CheckAlertsResume(u, resp)
    /\ UNCHANGED <<last_update, user_alerts, call>>

NextAlerts ==
    \E u \in Users :
        \/ SetPriceAlert(u)
        \/ CheckAlertsCall(u)
        \/ CheckAlertsReturn(u)

SpecAlerts == Init /\ [][NextAlerts]_vars

-----------------------------------------------------------------------------
(* PriceFeedExample.check_portfolio_value *)

\* the holdings callers pass are made of these (symbol, amount) items: two
\* supported symbols and one that is not
HoldingItems ==
    { << <<"B","T","C">>, 2 >>, << <<"e","t","h">>, 3 >>, << <<"Z","Z","Z">>, 1 >> }

\* holdings.items(): a dict as the sequence of its (symbol, amount) items, in
\* insertion order, no symbol twice
HoldingsInputs ==
    {h \in UNION {[1..n -> HoldingItems] : n \in 0..MaxHoldings} :
        \A j, k \in 1..Len(h) : j # k => h[j][1] # h[k][1]}

\* check_portfolio_value reads nothing but its argument and keeps nothing
\* between calls: one caller shows all it can do
PortfolioCallers == {"0xA"}

\* breakdown[symbol] = {...}
SetItem(d, key, value) ==
    [k \in DOMAIN d \cup {key} |-> IF k = key THEN value ELSE d[k]]

\* PortfolioStep reading price_data["price"] without the test of success
PortfolioStepUnguarded(acc, symbol, amount, price_data) ==
    IF ~price_data.success
    THEN Fault("KeyError")
    ELSE IF ~IsNum(price_data.price)
    THEN Fault("TypeError")
    ELSE LET price == price_data.price.n
             value == price * amount
         IN  [total_value |-> acc.total_value + value,
              breakdown |-> SetItem(acc.breakdown, symbol,
                                    [amount |-> amount, price |-> price, value |-> value])]

\* The body of the loop after get_price returned price_data.  The result of
\* get_price always holds the key "price", so .get("price", 0) is its value:
\* None * amount raises TypeError, and a string times an int is a string that
\* total_value += cannot add.
PortfolioStep(acc, symbol, amount, price_data) ==
    IF ~price_data.success
    THEN acc
    ELSE IF ~IsNum(price_data.price)
    THEN Fault("TypeError")
    ELSE LET price == price_data.price.n
             value == price * amount
         IN  [total_value |-> acc.total_value + value,
              breakdown |-> SetItem(acc.breakdown, symbol,
                                    [amount |-> amount, price |-> price, value |-> value])]

\* The loop from the point where get_price returned price_data for item i:
\* the body for item i, then the items after it up to the next call of
\* gl.exec_llm or to the end.  acc is total_value and breakdown; seen holds,
\* per item passed, the value get_price returned for it; raised names the
\* exception that ended the loop, if one did.
RECURSIVE PortfolioLoop(_, _, _, _, _)
PortfolioLoop(holdings, i, acc, seen, price_data) ==
    LET step == PortfolioStep(acc, holdings[i][1], holdings[i][2], price_data)
        passed == Append(seen, price_data)
    IN  IF IsFault(step)
        THEN [fetch |-> FALSE, raised |-> step.fault, i |-> i, acc |-> acc, seen |-> passed]
        ELSE IF i + 1 > Len(holdings)
        THEN [fetch |-> FALSE, raised |-> "", i |-> i + 1, acc |-> step, seen |-> passed]
        ELSE LET start == GetPriceStart(holdings[i + 1][1], usd)
             IN  IF start.fetch
                 THEN [fetch |-> TRUE, raised |-> "", i |-> i + 1, request |-> start.request,
                       acc |-> step, seen |-> passed]
                 ELSE PortfolioLoop(holdings, i + 1, step, passed, start.ret)

\* check_portfolio_value from its entry to the first call of gl.exec_llm, or
\* to its end
PortfolioEnter(holdings) ==
    LET acc == [total_value |-> 0, breakdown |-> <<>>]
    IN  IF holdings = <<>>
        THEN [fetch |-> FALSE, raised |-> "", i |-> 1, acc |-> acc, seen |-> <<>>]
        ELSE LET start == GetPriceStart(holdings[1][1], usd)
             IN  IF start.fetch
                 THEN [fetch |-> TRUE, raised |-> "", i |-> 1, request |-> start.request,
                       acc |-> acc, seen |-> <<>>]
                 ELSE PortfolioLoop(holdings, 1, acc, <<>>, start.ret)

\* the dict check_portfolio_value returns
PortfolioResult(acc) ==
    [total_value_usd |-> acc.total_value,
     breakdown |-> acc.breakdown,
     currency |-> "USD"]

\* caller u goes on as the loop says: waits for the next fetch, returns, or
\* ends in the exception raised
PortfolioContinue(u, run) ==
    /\ local' = [local EXCEPT ![u] = [i |-> run.i, acc |-> run.acc, seen |-> run.seen]]
    /\ IF run.fetch
       THEN /\ pc' = [pc EXCEPT ![u] = "fetching"]
            /\ req' = [req EXCEPT ![u] = run.request]
            /\ result' = [result EXCEPT ![u] = NoResult]
       ELSE /\ pc' = [pc EXCEPT ![u] = "returned"]
            /\ req' = [req EXCEPT ![u] = NoReq]
            /\ result' = [result EXCEPT ![u] =
                    IF run.raised # "" THEN Fault(run.raised) ELSE PortfolioResult(run.acc)]

CheckPortfolioValueCall(u) ==
    /\ pc[u] # "fetching"
    /\ \E holdings \in HoldingsInputs :
        /\ call' = [call EXCEPT ![u] = [op |-> "check_portfolio_value", holdings |-> holdings]]
        /\ PortfolioContinue(u, PortfolioEnter(holdings))
    /\ UNCHANGED <<price_cache, last_update, user_alerts>>

\* gl.exec_llm returns to the get_price call made for item local[u].i
CheckPortfolioValueReturn(u) ==
    /\ pc[u] = "fetching"
    /\ call[u].op = "check_portfolio_value"
    /\ \E resp \in Responses :
        LET fin == GetPriceFinish(price_cache, req[u], resp)
        IN  /\ price_cache' = fin.cache
            /\ PortfolioContinue(u,
                    PortfolioLoop(call[u].holdings, local[u].i, local[u].acc, local[u].seen, fin.ret))
    /\ UNCHANGED <<last_update, user_alerts, call>>

NextPortfolio ==
    \E u \in PortfolioCallers :
        \/ CheckPortfolioValueCall(u)
        \/ CheckPortfolioValueReturn(u)

SpecPortfolio == Init /\ [][NextPortfolio]_vars

-----------------------------------------------------------------------------
(* PriceFeedLibrary.get_multiple_prices *)

\* the largest number of symbols in one batch
MaxSymbols == 2

\* the symbols callers pass in a batch: two spellings of a supported symbol
\* and a symbol that is not supported
BatchSymbols == { <<"B","T","C">>, <<"b","t","c">>, <<"z","z","z">> }

\* the lists of symbols callers pass, repeated symbols included
BatchInputs == UNION {[1..n -> BatchSymbols] : n \in 0..MaxSymbols}

\* get_multiple_prices keeps nothing between calls but what get_price stores
\* in the cache, which it never reads: one caller shows all it can do
BatchCallers == {"0xA"}

\* results[symbol] = price_data, under the symbol as the caller spelled it
BatchStep(results, symbol, price_data) == SetItem(results, symbol, price_data)

\* The loop from the point where get_price returned price_data for symbol i:
\* the assignment for symbol i, then the symbols after it up to the next call
\* of gl.exec_llm or to the end.  seen holds, per symbol passed, the value
\* get_price returned for it.
RECURSIVE BatchLoop(_, _, _, _, _, _)
BatchLoop(symbols, currency, i, results, seen, price_data) ==
    LET step == BatchStep(results, symbols[i], price_data)
        passed == Append(seen, price_data)
    IN  IF i + 1 > Len(symbols)
        THEN [fetch |-> FALSE, i |-> i + 1, results |-> step, seen |-> passed]
        ELSE LET start == GetPriceStart(symbols[i + 1], currency)
             IN  IF start.fetch
                 THEN [fetch |-> TRUE, i |-> i + 1, request |-> start.request,
                       results |-> step, seen |-> passed]
                 ELSE BatchLoop(symbols, currency, i + 1, step, passed, start.ret)

\* get_multiple_prices from its entry to the first call of gl.exec_llm, or to
\* its end
BatchEnter(symbols, currency) ==
    IF symbols = <<>>
    THEN [fetch |-> FALSE, i |-> 1, results |-> <<>>, seen |-> <<>>]
    ELSE LET start == GetPriceStart(symbols[1], currency)
         IN  IF start.fetch
             THEN [fetch |-> TRUE, i |-> 1, request |-> start.request,
                   results |-> <<>>, seen |-> <<>>]
             ELSE BatchLoop(symbols, currency, 1, <<>>, <<>>, start.ret)

\* the number of entries of results whose get_price call reported success
SuccessesIn(results) == Cardinality({k \in DOMAIN results : results[k].success})

\* GetMultiplePricesResult counting the successes:
\* "count": len([r for r in results.values() if r["success"]])
GetMultiplePricesResultCountingSuccesses(currency, results) ==
    [success |-> TRUE,
     currency |-> currency,
     count |-> SuccessesIn(results),
     prices |-> results]

\* the dict get_multiple_prices returns
GetMultiplePricesResult(currency, results) ==
    [success |-> TRUE,
     currency |-> currency,
     count |-> Cardinality(DOMAIN results),
     prices |-> results]

\* caller u goes on as the loop says: waits for the next fetch, or returns
BatchContinue(u, currency, run) ==
    /\ local' = [local EXCEPT ![u] = [i |-> run.i, results |-> run.results, seen |-> run.seen]]
    /\ IF run.fetch
       THEN /\ pc' = [pc EXCEPT ![u] = "fetching"]
            /\ req' = [req EXCEPT ![u] = run.request]
            /\ result' = [result EXCEPT ![u] = NoResult]
       ELSE /\ pc' = [pc EXCEPT ![u] = "returned"]
            /\ req' = [req EXCEPT ![u] = NoReq]
            /\ result' = [result EXCEPT ![u] = GetMultiplePricesResult(currency, run.results)]

GetMultiplePricesCall(u) ==
    /\ pc[u] # "fetching"
    /\ \E symbols \in BatchInputs :
        /\ call' = [call EXCEPT ![u] =
                [op |-> "get_multiple_prices", symbols |-> symbols, currency |-> usd]]
        /\ BatchContinue(u, usd, BatchEnter(symbols, usd))
    /\ UNCHANGED <<price_cache, last_update, user_alerts>>

\* GetMultiplePricesReturn giving up at the first symbol that fails:
\* if not price_data["success"]: return price_data
GetMultiplePricesReturnAborting(u) ==
    /\ pc[u] = "fetching"
    /\ call[u].op = "get_multiple_prices"
    /\ \E resp \in Responses :
        LET fin == GetPriceFinish(price_cache, req[u], resp)
        IN  /\ price_cache' = fin.cache
            /\ IF ~fin.ret.success
               THEN /\ pc' = [pc EXCEPT ![u] = "returned"]
                    /\ req' = [req EXCEPT ![u] = NoReq]
                    /\ local' = [local EXCEPT ![u].seen = Append(@, fin.ret)]
                    /\ result' = [result EXCEPT ![u] = fin.ret]
               ELSE BatchContinue(u, call[u].currency,
                        BatchLoop(call[u].symbols, call[u].currency, local[u].i,
                                  local[u].results, local[u].seen, fin.ret))
    /\ UNCHANGED <<last_update, user_alerts, call>>

\* gl.exec_llm returns to the get_price call made for symbol local[u].i
GetMultiplePricesReturn(u) ==
    /\ pc[u] = "fetching"
    /\ call[u].op = "get_multiple_prices"
    /\ \E resp \in Responses :
        LET fin == GetPriceFinish(price_cache, req[u], resp)
        IN  /\ price_cache' = fin.cache
            /\ BatchContinue(u, call[u].currency,
                    BatchLoop(call[u].symbols, call[u].currency, local[u].i,
                              local[u].results, local[u].seen, fin.ret))
    /\ UNCHANGED <<last_update, user_alerts, call>>

NextBatch ==
    \E u \in BatchCallers :
        \/ GetMultiplePricesCall(u)
        \/ GetMultiplePricesReturn(u)

SpecBatch == Init /\ [][NextBatch]_vars

-----------------------------------------------------------------------------
(* PriceFeedLibrary.compare_prices *)

\* what gl.exec_llm followed by json.loads can do for the callers of the
\* derived operations: as Responses, and a quote whose price is negative,
\* which no line of get_price rules out
DerivedResponses == Responses \cup {[r |-> "json", val |-> Quote(0 - 1)]}

\* the symbols callers pass to the derived operations: two supported symbols,
\* one of them in lower case, and a symbol that is not supported
DerivedSymbols == { <<"B","T","C">>, <<"e","t","h">>, <<"z","z","z">> }

\* the thresholds callers pass: negative, zero and positive
Thresholds == (0 - 1)..1

\* the derived operations keep nothing between calls but what get_price
\* stores in the cache, which they never read: one caller shows all they can do
DerivedCallers == {"0xA"}

\* price1 / price2 if price2 > 0 else 0, as the fraction num/den
Ratio(price1, price2) ==
    IF price2 > 0
    THEN [num |-> price1, den |-> price2]
    ELSE [num |-> 0, den |-> 1]

\* Higher with >= for >
HigherOnTie(symbol1, price1, symbol2, price2) ==
    IF price1 >= price2 THEN symbol1 ELSE symbol2

\* symbol1 if price1 > price2 else symbol2
Higher(symbol1, price1, symbol2, price2) ==
    IF price1 > price2 THEN symbol1 ELSE symbol2

\* compare_prices after both calls of get_price returned.  The result of
\* get_price always holds the key "price", so .get("price", 0) is its value,
\* None included; price2 > 0, price1 / price2 and price1 > price2 raise
\* TypeError when a price is None or a string.
ComparePricesFinish(symbol1, symbol2, price1_data, price2_data) ==
    IF ~price1_data.success \/ ~price2_data.success
    THEN [success |-> FALSE, error |-> "Failed to fetch one or both prices"]
    ELSE LET price1 == price1_data.price
             price2 == price2_data.price
         IN  IF ~IsNum(price1) \/ ~IsNum(price2)
             THEN Fault("TypeError")
             ELSE [success |-> TRUE,
                   comparison |-> symbol1 \o <<"/">> \o symbol2,
                   symbol1 |-> symbol1,
                   price1 |-> price1,
                   symbol2 |-> symbol2,
                   price2 |-> price2,
                   ratio |-> Ratio(price1.n, price2.n),
                   higher |-> Higher(symbol1, price1.n, symbol2, price2.n)]

\* compare_prices from the return of get_price(symbol1) to the call of
\* gl.exec_llm for symbol2, or to its end
ComparePricesSecond(symbol1, symbol2, price1_data) ==
    LET start == GetPriceStart(symbol2, usd)
    IN  IF start.fetch
        THEN [fetch |-> TRUE, i |-> 2, request |-> start.request,
              seen |-> <<price1_data>>, ret |-> NoResult]
        ELSE [fetch |-> FALSE, i |-> 3, request |-> NoReq,
              seen |-> <<price1_data, start.ret>>,
              ret |-> ComparePricesFinish(symbol1, symbol2, price1_data, start.ret)]

\* compare_prices from its entry to the first call of gl.exec_llm, or to its end
ComparePricesEnter(symbol1, symbol2) ==
    LET start == GetPriceStart(symbol1, usd)
    IN  IF start.fetch
        THEN [fetch |-> TRUE, i |-> 1, request |-> start.request,
              seen |-> <<>>, ret |-> NoResult]
        ELSE ComparePricesSecond(symbol1, symbol2, start.ret)

\* caller u of a derived operation goes on: waits for a fetch, or returns.
\* seen holds the values its calls of get_price returned so far.
DerivedContinue(u, run) ==
    /\ local' = [local EXCEPT ![u] = [i |-> run.i, seen |-> run.seen]]
    /\ req' = [req EXCEPT ![u] = run.request]
    /\ result' = [result EXCEPT ![u] = run.ret]
    /\ pc' = [pc EXCEPT ![u] = IF run.fetch THEN "fetching" ELSE "returned"]

ComparePricesCall(u) ==
    /\ pc[u] # "fetching"
    /\ \E symbol1 \in DerivedSymbols, symbol2 \in DerivedSymbols :
        /\ call' = [call EXCEPT ![u] =
                [op |-> "compare_prices", symbol1 |-> symbol1, symbol2 |-> symbol2]]
        /\ DerivedContinue(u, ComparePricesEnter(symbol1, symbol2))
    /\ UNCHANGED <<price_cache, last_update, user_alerts>>

\* gl.exec_llm returns to the first or to the second call of get_price
ComparePricesReturn(u) ==
    /\ pc[u] = "fetching"
    /\ call[u].op = "compare_prices"
    /\ \E resp \in DerivedResponses :
        LET fin == GetPriceFinish(price_cache, req[u], resp)
        IN  /\ price_cache' = fin.cache
            /\ IF local[u].i = 1
               THEN DerivedContinue(u,
                        ComparePricesSecond(call[u].symbol1, call[u].symbol2, fin.ret))
               ELSE DerivedContinue(u,
                        [fetch |-> FALSE, i |-> 3, request |-> NoReq,
                         seen |-> Append(local[u].seen, fin.ret),
                         ret |-> ComparePricesFinish(call[u].symbol1, call[u].symbol2,
                                                     local[u].seen[1], fin.ret)])
    /\ UNCHANGED <<last_update, user_alerts, call>>

-----------------------------------------------------------------------------
(* The operations that call get_price once: PriceFeedLibrary.is_price_above, *)
(* PriceFeedExample.check_btc_price and PriceFeedExample.should_buy_signal   *)

\* check_btc_price after get_price returned: result['price'] raises KeyError
\* on a dict without the key, and the format :,.2f raises TypeError on None
\* and ValueError on a string
CheckBtcPriceFinish(res) ==
    IF "price" \notin DOMAIN res
    THEN Fault("KeyError")
    ELSE IF res.price.t = "none"
    THEN Fault("TypeError")
    ELSE IF res.price.t = "str"
    THEN Fault("ValueError")
    ELSE [message |-> <<"Current BTC price: $", res.price.n>>,
          data |-> res]

\* should_buy_signal after get_price returned price_data: None or a string
\* compared with a number raises TypeError; and evaluates its right side only
\* when the left side is true
ShouldBuySignalFinish(price_data, symbol, ma_threshold) ==
    IF ~price_data.success
    THEN price_data
    ELSE LET current_price == price_data.price
             change_24h == price_data.change_24h
         IN  IF ~IsNum(current_price)
             THEN Fault("TypeError")
             ELSE IF current_price.n < ma_threshold /\ ~IsNum(change_24h)
             THEN Fault("TypeError")
             ELSE LET should_buy == current_price.n < ma_threshold /\ change_24h.n > 0
                  IN  [success |-> TRUE,
                       symbol |-> symbol,
                       current_price |-> current_price,
                       ma_threshold |-> ma_threshold,
                       change_24h |-> change_24h,
                       should_buy |-> should_buy,
                       reason |-> IF should_buy
                                  THEN "Price below MA with positive momentum"
                                  ELSE "Conditions not met"]

\* what the operation of call c does with the value price_data that its call
\* of get_price returned
SingleFinish(c, price_data) ==
    IF c.op = "is_price_above"
    THEN IsPriceAboveFinish(price_data, c.symbol, c.threshold)
    ELSE IF c.op = "check_btc_price"
    THEN CheckBtcPriceFinish(price_data)
    ELSE ShouldBuySignalFinish(price_data, c.symbol, c.ma_threshold)

\* an operation that calls get_price(symbol, "usd") once, from its entry to
\* the call of gl.exec_llm, or to its end
SingleEnter(c, symbol) ==
    LET start == GetPriceStart(symbol, usd)
    IN  IF start.fetch
        THEN [fetch |-> TRUE, i |-> 1, request |-> start.request,
              seen |-> <<>>, ret |-> NoResult]
        ELSE [fetch |-> FALSE, i |-> 2, request |-> NoReq,
              seen |-> <<start.ret>>, ret |-> SingleFinish(c, start.ret)]

IsPriceAboveCall(u) ==
    /\ pc[u] # "fetching"
    /\ \E symbol \in DerivedSymbols, threshold \in Thresholds :
        LET c == [op |-> "is_price_above", symbol |-> symbol, threshold |-> threshold]
        IN  /\ call' = [call EXCEPT ![u] = c]
            /\ DerivedContinue(u, SingleEnter(c, symbol))
    /\ UNCHANGED <<price_cache, last_update, user_alerts>>

CheckBtcPriceCall(u) ==
    /\ pc[u] # "fetching"
    /\ LET c == [op |-> "check_btc_price"]
       IN  /\ call' = [call EXCEPT ![u] = c]
           /\ DerivedContinue(u, SingleEnter(c, <<"B","T","C">>))
    /\ UNCHANGED <<price_cache, last_update, user_alerts>>

ShouldBuySignalCall(u) ==
    /\ pc[u] # "fetching"
    /\ \E symbol \in DerivedSymbols, ma_threshold \in Thresholds :
        LET c == [op |-> "should_buy_signal", symbol |-> symbol, ma_threshold |-> ma_threshold]
        IN  /\ call' = [call EXCEPT ![u] = c]
            /\ DerivedContinue(u, SingleEnter(c, symbol))
    /\ UNCHANGED <<price_cache, last_update, user_alerts>>

\* gl.exec_llm returns to the get_price call of an operation that makes one
SingleReturn(u) ==
    /\ pc[u] = "fetching"
    /\ call[u].op \in {"is_price_above", "check_btc_price", "should_buy_signal"}
    /\ \E resp \in DerivedResponses :
        LET fin == GetPriceFinish(price_cache, req[u], resp)
        IN  /\ price_cache' = fin.cache
            /\ DerivedContinue(u,
                    [fetch |-> FALSE, i |-> 2, request |-> NoReq,
                     seen |-> <<fin.ret>>, ret |-> SingleFinish(call[u], fin.ret)])
    /\ UNCHANGED <<last_update, user_alerts, call>>

NextDerived ==
    \E u \in DerivedCallers :
        \/ ComparePricesCall(u)
        \/ ComparePricesReturn(u)
        \/ IsPriceAboveCall(u)
        \/ CheckBtcPriceCall(u)
        \/ ShouldBuySignalCall(u)
        \/ SingleReturn(u)

SpecDerived == Init /\ [][NextDerived]_vars

-----------------------------------------------------------------------------
(* Properties of get_price *)

\* the cache key of a request in flight
KeyOf(request) == CacheKey(request.symbol, request.currency)

\* the entry a cache holds for a key: <<value>>, or <<>> when it holds none
EntryOf(cache, k) == IF k \in DOMAIN cache THEN <<cache[k]>> ELSE <<>>

\* caller u is in a call of get_price that was made or has advanced in this step
GetPriceStepOf(u) ==
    /\ call'[u].op = "get_price"
    /\ <<pc[u], call[u], result[u]>>' # <<pc[u], call[u], result[u]>>

\* C1: at any instant at most one external fetch is in flight per cache key
C1_OneFetchInFlightPerKey ==
    \A u, v \in Users :
        (u # v /\ pc[u] = "fetching" /\ pc[v] = "fetching") => KeyOf(req[u]) # KeyOf(req[v])

C3_FailureLeavesEntry ==
    [][\A u \in Users :
        (pc[u] = "fetching" /\ call[u].op = "get_price"
            /\ pc'[u] = "returned" /\ ~result'[u].success)
            => EntryOf(price_cache', KeyOf(req[u])) = EntryOf(price_cache, KeyOf(req[u]))]_vars

\* C4: the cache entry of a key changes only in the step in which a fetch for
\* that very key returns; a get_price call for K, failed or not, changes the
\* entry of no other key
C4_OtherKeysUntouched ==
    [][\A k \in DOMAIN price_cache \cup DOMAIN price_cache' :
        EntryOf(price_cache', k) # EntryOf(price_cache, k)
            => \E u \in Users :
                /\ pc[u] = "fetching"
                /\ pc'[u] = "returned"
                /\ KeyOf(req[u]) = k]_vars

\* C4 witness: a get_price call for BTC/eur has failed while another key is cached
C4_Witness ==
    \E u \in Users :
        /\ pc[u] = "returned"
        /\ call[u].op = "get_price"
        /\ Lower(call[u].currency) = <<"e","u","r">>
        /\ ~result[u].success
        /\ CacheKey(<<"B","T","C">>, <<"u","s","d">>) \in DOMAIN price_cache

\* C5: a get_price call whose symbol, in upper case, is not a supported symbol
\* returns a failure carrying the full list of supported symbols, issues no
\* fetch and leaves the cache unchanged
C5_UnsupportedSymbolRejected ==
    [][\A u \in Users :
        (GetPriceStepOf(u) /\ pc[u] # "fetching" /\ ~IsSupported(Upper(call'[u].symbol)))
            => /\ pc'[u] = "returned"
               /\ req'[u] = NoReq
               /\ ~result'[u].success
               /\ "supported_coins" \in DOMAIN result'[u]
               /\ result'[u].supported_coins = [i \in 1..Len(SUPPORTED_COINS) |-> SUPPORTED_COINS[i][1]]
               /\ Len(result'[u].supported_coins) = 15
               /\ price_cache' = price_cache]_vars

\* C5 witness: an unsupported symbol was rejected while the cache holds an entry
C5_Witness ==
    \E u \in Users :
        /\ pc[u] = "returned"
        /\ call[u].op = "get_price"
        /\ call[u].symbol = <<"z","z","z">>
        /\ ~result[u].success
        /\ price_cache # <<>>

-----------------------------------------------------------------------------
(* Properties of set_price_alert and check_alerts *)

\* the callers that are in, or have returned from, a call of check_alerts that
\* entered the loop
Checking == {u \in Users : call[u].op = "check_alerts" /\ "seen" \in DOMAIN local[u]}

\* is_price_above answered r with a price: the fetch for the rule succeeded
Fetched(r) == "current_price" \in DOMAIN r

\* a is a subsequence of b: a is b with some elements left out
RECURSIVE IsSubsequence(_, _)
IsSubsequence(a, b) ==
    IF a = <<>> THEN TRUE
    ELSE IF b = <<>> THEN FALSE
    ELSE IF Head(a) = Head(b) THEN IsSubsequence(Tail(a), Tail(b))
    ELSE IsSubsequence(a, Tail(b))

\* a rule, or a triggered entry, as (symbol, threshold, direction)
RuleOf(x) == <<x.symbol, x.threshold, x.type>>

RulesOf(xs) == [j \in 1..Len(xs) |-> RuleOf(xs[j])]

\* p is a prefix of q
IsPrefix(p, q) == Len(p) <= Len(q) /\ \A j \in 1..Len(p) : q[j] = p[j]

\* C6: a rule whose quote fetch succeeded with price p is in the triggered
\* output iff its direction is above and p > threshold, or below and
\* p <= threshold
C6_TriggerCondition ==
    \A u \in Checking :
        \A j \in 1..Len(local[u].seen) :
            LET alert == user_alerts[u][j]
                r == local[u].seen[j]
            IN  Fetched(r) =>
                    ((\E k \in 1..Len(local[u].triggered) :
                        local[u].triggered[k] = TriggeredEntry(alert, r.current_price))
                     <=> \/ (alert.type = "above" /\ r.current_price.n > alert.threshold)
                         \/ (alert.type = "below" /\ r.current_price.n <= alert.threshold))

\* C6 witness: check_alerts returned for a below rule and an above rule, both
\* fetched at a price equal to the threshold, and exactly one rule triggered
C6_Witness ==
    \E u \in Checking :
        /\ pc[u] = "returned"
        /\ Len(local[u].seen) = 2
        /\ \A j \in 1..2 :
            /\ Fetched(local[u].seen[j])
            /\ local[u].seen[j].current_price.n = user_alerts[u][j].threshold
        /\ user_alerts[u][1].type # user_alerts[u][2].type
        /\ result[u].success
        /\ result[u].triggered_count = 1
        /\ result[u].triggered_alerts[1].type = "below"

\* C7: the triggered list is a subsequence of the caller's rule list, in the
\* order the rules were stored; a rule whose fetch failed does not end the
\* call in an error, and a call that returns reports success with that list
C7_TriggeredIsSubsequence ==
    \A u \in Checking :
        /\ IsSubsequence(RulesOf(local[u].triggered), RulesOf(user_alerts[u]))
        /\ Len(local[u].triggered)
              <= Cardinality({j \in 1..Len(local[u].seen) : Fetched(local[u].seen[j])})
        /\ (pc[u] = "returned" /\ IsFault(result[u]))
              => IsFault(local[u].seen[Len(local[u].seen)])
        /\ (pc[u] = "returned" /\ ~IsFault(result[u]))
              => /\ result[u].success
                 /\ result[u].triggered_alerts = local[u].triggered
                 /\ result[u].triggered_count = Len(local[u].triggered)
                 /\ Len(local[u].seen) = Len(user_alerts[u])

\* C7 witness: check_alerts returned two different triggered rules
C7_Witness ==
    \E u \in Checking :
        /\ pc[u] = "returned"
        /\ ~IsFault(result[u])
        /\ result[u].success
        /\ result[u].triggered_count = 2
        /\ RuleOf(result[u].triggered_alerts[1]) # RuleOf(result[u].triggered_alerts[2])

\* caller u is in a call of check_alerts that was made or has advanced in this step
CheckAlertsStepOf(u) ==
    /\ call'[u].op = "check_alerts"
    /\ <<pc[u], call[u], result[u], local[u]>>' # <<pc[u], call[u], result[u], local[u]>>

\* C8: no step of check_alerts changes the alert store, and every stored rule
\* stays active, so a rule is evaluated again by every later call
C8_CheckLeavesStore ==
    [][/\ \A u \in Users : CheckAlertsStepOf(u) => user_alerts' = user_alerts
       /\ \A u \in DOMAIN user_alerts' :
            \A j \in 1..Len(user_alerts'[u]) : user_alerts'[u][j].active]_vars

\* C8 witness: check_alerts returned a triggered rule and the rule is still active
C8_Witness ==
    \E u \in Checking :
        /\ pc[u] = "returned"
        /\ ~IsFault(result[u])
        /\ result[u].success
        /\ result[u].triggered_count >= 1
        /\ \E j \in 1..Len(user_alerts[u]) :
            /\ RuleOf(user_alerts[u][j]) = RuleOf(result[u].triggered_alerts[1])
            /\ user_alerts[u][j].active

\* caller u made a call of set_price_alert in this step
SetPriceAlertStepOf(u) ==
    /\ call'[u].op = "set_price_alert"
    /\ \/ <<pc[u], call[u], result[u]>>' # <<pc[u], call[u], result[u]>>
       \/ AlertsOf(user_alerts', u) # AlertsOf(user_alerts, u)

\* C9: every step leaves each user's rule list a prefix of its new value; a
\* call of set_price_alert, whatever the symbol, appends one active rule made
\* of its arguments and returns it with success
C9_AlertsAppendOnly ==
    [][/\ \A u \in DOMAIN user_alerts :
            /\ u \in DOMAIN user_alerts'
            /\ IsPrefix(user_alerts[u], user_alerts'[u])
       /\ \A u \in Users :
            SetPriceAlertStepOf(u) =>
                LET alert == [symbol |-> call'[u].symbol,
                              threshold |-> call'[u].threshold,
                              type |-> call'[u].alert_type,
                              active |-> TRUE]
                IN  /\ u \in DOMAIN user_alerts'
                    /\ user_alerts'[u] = Append(AlertsOf(user_alerts, u), alert)
                    /\ pc'[u] = "returned"
                    /\ result'[u].success
                    /\ result'[u].alert = alert]_vars

\* C9 witness: a rule for an unsupported symbol was appended to a list that
\* already held a different rule
C9_Witness ==
    \E u \in DOMAIN user_alerts :
        /\ Len(user_alerts[u]) = 2
        /\ user_alerts[u][1] # user_alerts[u][2]
        /\ ~IsSupported(Upper(user_alerts[u][2].symbol))
        /\ pc[u] = "returned"
        /\ call[u].op = "set_price_alert"
        /\ result[u].alert = user_alerts[u][2]

-----------------------------------------------------------------------------
(* Properties of check_portfolio_value *)

\* the callers that are in, or have returned from, a call of check_portfolio_value
Valuing == {u \in Users : call[u].op = "check_portfolio_value"}

\* the sum of amount * price over the first n holdings whose get_price call
\* reported success
RECURSIVE SumOfSucceeded(_, _, _)
SumOfSucceeded(holdings, seen, n) ==
    IF n = 0
    THEN 0
    ELSE SumOfSucceeded(holdings, seen, n - 1)
            + (IF seen[n].success THEN holdings[n][2] * seen[n].price.n ELSE 0)

\* C10: a holding whose get_price call failed never ends check_portfolio_value;
\* the breakdown holds exactly the holdings whose call succeeded, total_value
\* is the sum of amount * price over those, and the call returns its result
\* dict (which carries no failure flag) also when every holding failed
C10_PortfolioSkipsFailures ==
    \A u \in Valuing :
        LET holdings == call[u].holdings
            seen == local[u].seen
            acc == local[u].acc
            faulted == pc[u] = "returned" /\ IsFault(result[u])
            done == IF faulted THEN Len(seen) - 1 ELSE Len(seen)
            ok == {j \in 1..done : seen[j].success}
        IN  /\ faulted => seen[Len(seen)].success
            /\ DOMAIN acc.breakdown = {holdings[j][1] : j \in ok}
            /\ \A j \in ok :
                acc.breakdown[holdings[j][1]] =
                    [amount |-> holdings[j][2],
                     price |-> seen[j].price.n,
                     value |-> holdings[j][2] * seen[j].price.n]
            /\ acc.total_value = SumOfSucceeded(holdings, seen, done)
            /\ (pc[u] = "returned" /\ ~faulted)
                  => /\ Len(seen) = Len(holdings)
                     /\ result[u] = [total_value_usd |-> acc.total_value,
                                     breakdown |-> acc.breakdown,
                                     currency |-> "USD"]

\* C10 witness: check_portfolio_value returned for two holdings, one fetched
\* and one failed, with the fetched one alone in the breakdown and the total
C10_Witness ==
    \E u \in Valuing :
        /\ pc[u] = "returned"
        /\ ~IsFault(result[u])
        /\ Len(call[u].holdings) = 2
        /\ Cardinality({j \in 1..2 : local[u].seen[j].success}) = 1
        /\ Cardinality(DOMAIN result[u].breakdown) = 1
        /\ result[u].total_value_usd > 0

-----------------------------------------------------------------------------
(* Properties of get_multiple_prices *)

\* the callers that are in, or have returned from, a call of get_multiple_prices
Batching == {u \in Users : call[u].op = "get_multiple_prices"}

\* the position of the last occurrence of symbols[j] in symbols
LastOccurrence(symbols, j) ==
    CHOOSE k \in 1..Len(symbols) :
        /\ symbols[k] = symbols[j]
        /\ \A m \in (k + 1)..Len(symbols) : symbols[m] # symbols[j]

\* C11 as claimed: for every list of symbols, repeated symbols included, the
\* count returned equals the length of the list and the number of entries of
\* the per-symbol map
C11_CountIsInputLength ==
    \A u \in Batching :
        pc[u] = "returned"
            => /\ result[u].count = Len(call[u].symbols)
               /\ result[u].count = Cardinality(DOMAIN result[u].prices)

\* C11 amended: the count returned equals the number of entries of the
\* per-symbol map, which has one entry per distinct symbol string of the list,
\* failed ones included; it equals the length of the list exactly when no
\* symbol string is repeated
C11_CountIsDistinctSymbols ==
    \A u \in Batching :
        pc[u] = "returned"
            => LET symbols == call[u].symbols
               IN  /\ result[u].count = Cardinality(DOMAIN result[u].prices)
                   /\ DOMAIN result[u].prices = {symbols[j] : j \in 1..Len(symbols)}
                   /\ result[u].count = Len(symbols)
                        <=> \A j, k \in 1..Len(symbols) : symbols[j] = symbols[k] => j = k

\* C11 witness: a batch naming one symbol twice returned count 1 although the
\* symbol's fetch failed both times
C11_Witness ==
    \E u \in Batching :
        /\ pc[u] = "returned"
        /\ Len(call[u].symbols) = 2
        /\ call[u].symbols[1] = call[u].symbols[2]
        /\ IsSupported(Upper(call[u].symbols[1]))
        /\ \A j \in 1..2 : ~local[u].seen[j].success
        /\ result[u].count = 1

\* C12: get_price is called for every symbol of the list, in the order of the
\* list, whatever the calls before it returned; the call returns success with,
\* under every symbol, the dict get_price returned for its last occurrence
C12_BatchNeverAborts ==
    \A u \in Batching :
        LET symbols == call[u].symbols
            seen == local[u].seen
        IN  /\ Len(seen) <= Len(symbols)
            /\ \A j \in 1..Len(seen) :
                /\ "success" \in DOMAIN seen[j]
                /\ IF IsSupported(Upper(symbols[j]))
                   THEN seen[j].symbol = Upper(symbols[j])
                   ELSE seen[j] = UnsupportedResult(Upper(symbols[j]))
            /\ pc[u] = "fetching"
                => /\ local[u].i = Len(seen) + 1
                   /\ req[u].symbol = Upper(symbols[local[u].i])
            /\ pc[u] = "returned"
                => /\ Len(seen) = Len(symbols)
                   /\ ~IsFault(result[u])
                   /\ result[u].success
                   /\ "prices" \in DOMAIN result[u]
                   /\ \A j \in 1..Len(symbols) :
                        /\ symbols[j] \in DOMAIN result[u].prices
                        /\ result[u].prices[symbols[j]] = seen[LastOccurrence(symbols, j)]

\* C12 witness: a batch of two different symbols returned, the first fetch
\* failed and the second, made after it, succeeded
C12_Witness ==
    \E u \in Batching :
        /\ pc[u] = "returned"
        /\ Len(call[u].symbols) = 2
        /\ call[u].symbols[1] # call[u].symbols[2]
        /\ IsSupported(Upper(call[u].symbols[1]))
        /\ ~local[u].seen[1].success
        /\ local[u].seen[2].success
        /\ result[u].prices[call[u].symbols[2]].success

-----------------------------------------------------------------------------
(* Properties of compare_prices and is_price_above *)

\* the callers that have returned from a call of compare_prices
Compared == {u \in Users : call[u].op = "compare_prices" /\ pc[u] = "returned"}

\* the callers that have returned from a call of is_price_above
Asked == {u \in Users : call[u].op = "is_price_above" /\ pc[u] = "returned"}

\* the fractions a and b are the same number
SameFraction(a, b) == a.num * b.den = b.num * a.den

\* the fraction f is the number 0
IsZero(f) == f.num = 0

\* C13 as claimed: when both fetches succeeded with prices price1 and price2,
\* ratio is price1 / price2 for every price2 # 0 and 0 for price2 = 0, and
\* higher is symbol1 exactly when price1 > price2
C13_RatioForNonZero ==
    \A u \in Compared :
        (~IsFault(result[u]) /\ result[u].success)
            => LET price1 == local[u].seen[1].price.n
                   price2 == local[u].seen[2].price.n
               IN  /\ price2 # 0 => SameFraction(result[u].ratio, [num |-> price1, den |-> price2])
                   /\ price2 = 0 => IsZero(result[u].ratio)
                   /\ result[u].higher = call[u].symbol1 <=>
                        (price1 > price2 \/ call[u].symbol1 = call[u].symbol2)

\* C13 amended: when both calls of get_price reported success with numeric
\* prices price1 and price2, compare_prices returns success with ratio =
\* price1 / price2 for every price2 > 0 and ratio = 0 for every price2 <= 0,
\* and higher = symbol1 exactly when price1 > price2, otherwise symbol2; when
\* a call reported success with a missing or non-numeric price, compare_prices
\* ends in a TypeError; when a call reported a failure, it returns a failure
C13_RatioForPositive ==
    \A u \in Compared :
        LET price1_data == local[u].seen[1]
            price2_data == local[u].seen[2]
        IN  /\ Len(local[u].seen) = 2
            /\ (~price1_data.success \/ ~price2_data.success)
                => (~IsFault(result[u]) /\ ~result[u].success)
            /\ (price1_data.success /\ price2_data.success)
                => IF IsNum(price1_data.price) /\ IsNum(price2_data.price)
                   THEN LET price1 == price1_data.price.n
                            price2 == price2_data.price.n
                        IN  /\ ~IsFault(result[u])
                            /\ result[u].success
                            /\ result[u].price1 = Num(price1)
                            /\ result[u].price2 = Num(price2)
                            /\ price2 > 0 =>
                                 SameFraction(result[u].ratio, [num |-> price1, den |-> price2])
                            /\ price2 <= 0 => IsZero(result[u].ratio)
                            /\ price1 > price2 => result[u].higher = call[u].symbol1
                            /\ price1 <= price2 => result[u].higher = call[u].symbol2
                   ELSE IsFault(result[u])

\* C13 witness: compare_prices returned for two different symbols fetched at
\* the same negative price: ratio 0 and higher = symbol2
C13_Witness ==
    \E u \in Compared :
        /\ ~IsFault(result[u])
        /\ result[u].success
        /\ call[u].symbol1 # call[u].symbol2
        /\ result[u].price1 = result[u].price2
        /\ result[u].price2.n < 0
        /\ IsZero(result[u].ratio)
        /\ result[u].higher = call[u].symbol2

\* C14 as claimed: when the fetch succeeded with price current_price,
\* is_above = (current_price > threshold), difference = current_price -
\* threshold, and percentage_diff = (current_price - threshold) / threshold *
\* 100 for every threshold # 0 and 0 for threshold = 0
C14_PercentageForNonZero ==
    \A u \in Asked :
        (~IsFault(result[u]) /\ result[u].success)
            => LET current_price == local[u].seen[1].price.n
                   threshold == call[u].threshold
               IN  /\ result[u].is_above <=> current_price > threshold
                   /\ result[u].difference = current_price - threshold
                   /\ threshold # 0 =>
                        SameFraction(result[u].percentage_diff,
                                     [num |-> (current_price - threshold) * 100, den |-> threshold])
                   /\ threshold = 0 => IsZero(result[u].percentage_diff)

\* C14 amended: when get_price reported success with a numeric price
\* current_price, is_price_above returns is_above = (current_price >
\* threshold), difference = current_price - threshold, and percentage_diff =
\* (current_price - threshold) / threshold * 100 for every threshold > 0 and
\* 0 for every threshold <= 0; when get_price reported success with a missing
\* or non-numeric price, is_price_above ends in a TypeError; when get_price
\* reported a failure, is_price_above returns that failure
C14_PercentageForPositive ==
    \A u \in Asked :
        LET price_data == local[u].seen[1]
            threshold == call[u].threshold
        IN  /\ Len(local[u].seen) = 1
            /\ ~price_data.success => result[u] = price_data
            /\ price_data.success
                => IF IsNum(price_data.price)
                   THEN LET current_price == price_data.price.n
                        IN  /\ ~IsFault(result[u])
                            /\ result[u].success
                            /\ result[u].current_price = Num(current_price)
                            /\ result[u].threshold = threshold
                            /\ result[u].is_above <=> current_price > threshold
                            /\ result[u].difference = current_price - threshold
                            /\ threshold > 0 =>
                                 SameFraction(result[u].percentage_diff,
                                              [num |-> (current_price - threshold) * 100,
                                               den |-> threshold])
                            /\ threshold <= 0 => IsZero(result[u].percentage_diff)
                   ELSE IsFault(result[u])

\* C14 witness: is_price_above returned for a negative threshold and a price
\* above it, with percentage_diff 0
C14_Witness ==
    \E u \in Asked :
        /\ ~IsFault(result[u])
        /\ result[u].success
        /\ call[u].threshold < 0
        /\ result[u].is_above
        /\ result[u].difference > 0
        /\ IsZero(result[u].percentage_diff)

-----------------------------------------------------------------------------
(* Properties of the results *)

\* C15: get_price reports success only for a payload in which price,
\* change_24h and market_cap are all present and numeric
C15_SuccessOnlyForWellFormedPayload ==
    \A u \in Users :
        (call[u].op = "get_price" /\ pc[u] = "returned" /\ result[u].success)
            => /\ IsNum(result[u].price)
               /\ IsNum(result[u].change_24h)
               /\ IsNum(result[u].market_cap)

\* C16: no public operation ends in an uncaught exception, whatever the
\* external fetch did
C16_NoUncaughtFault ==
    \A u \in Users : pc[u] = "returned" => ~IsFault(result[u])

-----------------------------------------------------------------------------
(* Properties of the normalisation, of the alert store and of the cache *)

\* the characters a and b are one letter, in either case
SameLetter(a, b) ==
    a = b \/ \E k \in 1..26 : {a, b} = {LowerLetters[k], UpperLetters[k]}

\* the strings s and t differ at most in the case of their letters
DifferOnlyInCase(s, t) ==
    Len(s) = Len(t) /\ \A i \in 1..Len(s) : SameLetter(s[i], t[i])

HasNoLowerLetter(s) == \A i \in 1..Len(s) : \A k \in 1..26 : s[i] # LowerLetters[k]

HasNoUpperLetter(s) == \A i \in 1..Len(s) : \A k \in 1..26 : s[i] # UpperLetters[k]

\* the callers that are in, or have returned from, a call of get_price
Pricing == {u \in Users : call[u].op = "get_price"}

\* get_price turned caller u away for its symbol
Rejected(u) == pc[u] = "returned" /\ "supported_coins" \in DOMAIN result[u]

\* C17: the request get_price makes holds the symbol in upper case and the
\* currency in lower case, is left as it is by a second normalisation, and is
\* the same (symbol, source identifier and cache key) for requests whose
\* arguments differ only in letter case; a spelling of a supported symbol is
\* never turned away
C17_CaseInsensitiveNormalization ==
    /\ \A u \in Pricing :
        /\ pc[u] = "fetching"
            => /\ DifferOnlyInCase(req[u].symbol, call[u].symbol)
               /\ HasNoLowerLetter(req[u].symbol)
               /\ DifferOnlyInCase(req[u].currency, call[u].currency)
               /\ HasNoUpperLetter(req[u].currency)
               /\ Upper(req[u].symbol) = req[u].symbol
               /\ Lower(req[u].currency) = req[u].currency
               /\ \E i \in 1..Len(SUPPORTED_COINS) :
                    /\ SUPPORTED_COINS[i][1] = req[u].symbol
                    /\ SUPPORTED_COINS[i][2] = req[u].coin_id
        /\ Rejected(u)
            => \A i \in 1..Len(SUPPORTED_COINS) :
                    ~DifferOnlyInCase(call[u].symbol, SUPPORTED_COINS[i][1])
    /\ \A u, v \in Pricing :
        (/\ pc[u] = "fetching"
         /\ pc[v] = "fetching"
         /\ DifferOnlyInCase(call[u].symbol, call[v].symbol)
         /\ DifferOnlyInCase(call[u].currency, call[v].currency))
            => /\ req[u] = req[v]
               /\ KeyOf(req[u]) = KeyOf(req[v])

\* C17 witness: two requests in flight whose symbols and currencies are
\* spelled differently resolve to the same request
C17_Witness ==
    \E u, v \in Pricing :
        /\ pc[u] = "fetching"
        /\ pc[v] = "fetching"
        /\ call[u].symbol # call[v].symbol
        /\ call[u].currency # call[v].currency
        /\ req[u] = req[v]
        /\ KeyOf(req[u]) = <<"B","T","C","_","u","s","d">>

\* what belongs to caller u alone
OwnOf(u) == <<pc[u], call[u], req[u], local[u], result[u]>>

\* C18: a step changes the rule list of at most one user, and of user v only
\* in a call of set_price_alert made by v while no other caller moves;
\* check_alerts called by u evaluates, fetches for and reports the rules of
\* u's own list, position by position
C18_AlertsIsolatedPerUser ==
    [][/\ \A v \in Users :
            AlertsOf(user_alerts', v) # AlertsOf(user_alerts, v)
                => /\ call'[v].op = "set_price_alert"
                   /\ pc'[v] = "returned"
                   /\ result'[v].alert = user_alerts'[v][Len(user_alerts'[v])]
                   /\ \A w \in Users \ {v} :
                        /\ OwnOf(w)' = OwnOf(w)
                        /\ AlertsOf(user_alerts', w) = AlertsOf(user_alerts, w)
                        /\ w \in DOMAIN user_alerts' <=> w \in DOMAIN user_alerts
       /\ \A u \in Users :
            (call'[u].op = "check_alerts" /\ "seen" \in DOMAIN local'[u])
                => LET own == AlertsOf(user_alerts', u)
                       seen == local'[u].seen
                       triggered == local'[u].triggered
                   IN  /\ Len(seen) <= Len(own)
                       /\ \A j \in 1..Len(seen) :
                            Fetched(seen[j])
                                => /\ seen[j].symbol = own[j].symbol
                                   /\ seen[j].threshold = own[j].threshold
                       /\ pc'[u] = "fetching"
                            => /\ local'[u].i \in 1..Len(own)
                               /\ req'[u].symbol = Upper(own[local'[u].i].symbol)
                       /\ \A k \in 1..Len(triggered) :
                            \E j \in 1..Len(seen) :
                                /\ Fetched(seen[j])
                                /\ triggered[k] = TriggeredEntry(own[j], seen[j].current_price)]_vars

\* C18 witness: two users hold different rules, and check_alerts called by
\* one of them returned that user's rule alone
C18_Witness ==
    \E u, v \in DOMAIN user_alerts :
        /\ u # v
        /\ Len(user_alerts[u]) = 1
        /\ Len(user_alerts[v]) = 1
        /\ RuleOf(user_alerts[u][1]) # RuleOf(user_alerts[v][1])
        /\ call[u].op = "check_alerts"
        /\ pc[u] = "returned"
        /\ ~IsFault(result[u])
        /\ "triggered_count" \in DOMAIN result[u]
        /\ result[u].triggered_count = 1
        /\ RuleOf(result[u].triggered_alerts[1]) = RuleOf(user_alerts[u][1])

\* k is the key of a supported symbol and of a currency without upper-case letters
IsNormalizedKey(k) ==
    \E i \in 1..Len(SUPPORTED_COINS) :
        LET symbol == SUPPORTED_COINS[i][1]
        IN  /\ Len(k) > Len(symbol)
            /\ SubSeq(k, 1, Len(symbol)) = symbol
            /\ k[Len(symbol) + 1] = "_"
            /\ HasNoUpperLetter(SubSeq(k, Len(symbol) + 2, Len(k)))

\* C19: a key enters the cache only in a step in which a get_price call for
\* that key returns success; every key of the cache is made of a supported
\* symbol and a lower-case currency; no key ever leaves the cache
C19_CacheEntriesFromSuccess ==
    [][/\ DOMAIN price_cache \subseteq DOMAIN price_cache'
       /\ \A k \in DOMAIN price_cache' : IsNormalizedKey(k)
       /\ \A k \in DOMAIN price_cache' \ DOMAIN price_cache :
            \E u \in Users :
                /\ pc[u] = "fetching"
                /\ pc'[u] = "returned"
                /\ KeyOf(req[u]) = k
                /\ result'[u].success]_vars

====
